---- MODULE Spec2Model ----
(***************************************************************************)
(* Model of the chunking, embedding-lifecycle and retrieval core of        *)
(* vault-mcp.                                                              *)
(*                                                                         *)
(*  - chunkText / generateChunkedEmbeddings   (src/services/embeddings.ts) *)
(*  - processInlineIfSmall / startupProcessor (background-embeddings.ts)   *)
(*  - extract_content ingestion               (src/tools/extract-content)  *)
(*  - searchInChunks, the context sampler     (src/tools/read.ts)          *)
(*  - searchNotes / hybridSearchWithFilters   (src/tools/search.ts)        *)
(*                                                                         *)
(* A text is represented by what chunkText observes of it: its length and  *)
(* the set of offsets at which one of the two-character boundary markers   *)
(* ". ", "! ", "? ", "\n\n" begins.  A chunk is the span [s, e) it was     *)
(* sliced from.                                                            *)
(***************************************************************************)
EXTENDS Integers, Sequences, FiniteSets, TLC

\* ------------------------------------------------------------------------
\* Program constants
\* ------------------------------------------------------------------------
MaxChunkSize == 6000
Overlap == 500
SearchWindow == 500
SYNC_THRESHOLD == 5
EstimateChunkSize == 6000
StartupBatch == 10
\* searchNotes: the largest effective limit
MaxSafeLimit == 20
\* searchInChunks: limit: number = 10
DefaultLimit == 10
\* hybridSearchWithFilters: match_count is limit * 3
MatchFactor == 3
\* hybrid_search_chunked: the constant of the reciprocal rank
RrfK == 60

\* ------------------------------------------------------------------------
\* Bounds of the model
\* ------------------------------------------------------------------------
\* texts are up to MaxWindows windows (plus an offset) long
MaxWindows == 2
\* a text carries at most MaxMarks boundary markers
MaxMarks == 2
\* the heap has room for MaxChunks entries of the chunk array
MaxChunks == 3

\* the sampled document has at most MaxTotal chunks
MaxTotal == 5
\* searchInChunks is called with a limit of at most MaxLimit
MaxLimit == 4
\* similarities take the values 0..MaxScore
MaxScore == 1

\* the vault searched by searchNotes holds NumFiles files
NumFiles == 4
\* the chunks of the vault that carry an embedding
MaxSemRows == 2
\* searchNotes is asked for 0..MaxReqLimit results, or for more than 20
MaxReqLimit == 2

\* embeddings have VecDim components, each in -MaxComp..MaxComp
VecDim == 2
MaxComp == 1

\* concurrent add_note calls of one day
NumNotes == 3

\* concurrent handler invocations and documents of the pipeline
NumProcs == 2
NumDocs == 2

LenOffsets == {0, 1, 500, 501, 3000}
MarkOffsets == {1, 2, 3, 250, 499, 500, 501, 750, 1000}

TextLens == {w * MaxChunkSize + d : w \in 0..MaxWindows, d \in LenOffsets}
MarkCands == {w * MaxChunkSize - d : w \in 1..MaxWindows, d \in MarkOffsets}

RECURSIVE SmallSubsets(_, _)
\* the subsets of S of at most n elements
SmallSubsets(S, n) ==
  IF n = 0 THEN {{}}
  ELSE LET P == SmallSubsets(S, n - 1)
       IN  P \cup {T \cup {x} : T \in P, x \in S}

Texts ==
  UNION {{[len |-> l, marks |-> m] :
            m \in SmallSubsets({p \in MarkCands : p + 2 <= l}, MaxMarks)} :
         l \in TextLens}

NoText == [len |-> 0, marks |-> {}]

Procs == 1..NumProcs
Docs == 1..NumDocs
NoDoc == 0

\* extract_content writes under library/, save_learning under learnings/:
\* the two never write the same path
LibraryDocs == {d \in Docs : d % 2 = 1}
LearningDocs == {d \in Docs : d % 2 = 0}

\* the startup hook runs once in the life of the server, and the migration
\* script is one sequential run: one invocation stands for each
startupProc == CHOOSE p \in Procs : \A q \in Procs : p <= q
migrateProc == CHOOSE p \in Procs : \A q \in Procs : p >= q

\* bodies an extractor hands to the pipeline: one chunk, several chunks,
\* the largest text within the inline threshold and the smallest beyond it
PipeTexts ==
  {[len |-> l, marks |-> {}] :
     l \in {MaxChunkSize, MaxChunkSize + 1,
            SYNC_THRESHOLD * EstimateChunkSize,
            SYNC_THRESHOLD * EstimateChunkSize + 1}}

\* ------------------------------------------------------------------------
\* State
\* ------------------------------------------------------------------------
VARIABLES
  ct_pc,      \* position of the (synchronous) chunkText call
  ct_text,    \* its argument
  ct_start,   \* its local `start`
  ct_chunks,  \* its local `chunks`, as spans
  ct_owner,   \* the caller waiting for it
  apiKey,     \* process.env.OPENAI_API_KEY is set
  status,     \* files.chunks_status per document ("absent": no row)
  body,       \* files.body per document
  stale,      \* files.created_at is older than the staleness window
  stored,     \* file_chunks rows per document
  legacy,     \* files.embedding is set (a row from before file_chunks)
  proc,       \* the handler invocations: position and locals
  fault,      \* an embedding call or a store call has failed so far
  sm_pc,      \* position of the searchInChunks call
  sm_total,   \* rows of the file in file_chunks (indices 0..sm_total-1)
  sm_limit,   \* its argument `limit`
  sm_emb,     \* queryEmbedding is not null
  sm_hits,    \* the chunks whose text contains the query
  sm_top,     \* topMatches, as chunk indices
  sm_ctx,     \* contextIndices
  sm_ctxok,   \* the fetch of the context chunks succeeded
  sm_out,     \* uniqueChunks, as chunk indices
  sm_labels,  \* the label of each section of the output
  se_pc,      \* position of the searchNotes call
  se_query,   \* `query` is not empty
  se_req,     \* `limit` as requested
  se_limit,   \* safeLimit
  se_emb,     \* queryEmbedding is not null
  se_kw,      \* the files whose body contains the query, newest update first
  se_sem,     \* the rows of semantic_results: file id and rank_ix
  se_score,   \* the score column of the joined rows, as fractions
  se_rank,    \* the joined rows of hybrid_search_chunked by score, before
              \* its LIMIT match_count
  se_data,    \* the rows returned by hybrid_search_chunked, as file ids
  se_pass,    \* the files that satisfy the structural filters
  se_out,     \* the result, as file ids
  se_err,     \* the call that made searchNotes throw
  cs_pc,      \* position of the cosineSimilarity call
  cs_a,       \* its first vector, the query embedding
  cs_b,       \* its second vector, the embedding of a chunk or of a tool
  cs_res,     \* the value it returned
  nt_exists,  \* today's daily file has a row in files
  nt_body,    \* its body, as the notes it holds in order
  nt_call     \* the add_note calls: position, the row read, the answer

chunkVars == <<ct_pc, ct_text, ct_start, ct_chunks, ct_owner>>
docVars == <<status, body, stale, stored, legacy>>
pipeVars == <<apiKey, status, body, stale, stored, legacy, proc, fault>>
samplerVars == <<sm_pc, sm_total, sm_limit, sm_emb, sm_hits, sm_top, sm_ctx,
                 sm_ctxok, sm_out, sm_labels>>
searchVars == <<se_pc, se_query, se_req, se_limit, se_emb, se_kw, se_sem,
                se_score, se_rank, se_data, se_pass, se_out, se_err>>
cosineVars == <<cs_pc, cs_a, cs_b, cs_res>>
notesVars == <<nt_exists, nt_body, nt_call>>
vars == <<searchVars, ct_pc, ct_text, ct_start, ct_chunks, ct_owner, apiKey, status, body,
          stale, stored, legacy, proc, fault, sm_pc, sm_total, sm_limit,
          sm_emb, sm_hits, sm_top, sm_ctx, sm_ctxok, sm_out, sm_labels,
          cs_pc, cs_a, cs_b, cs_res, nt_exists, nt_body, nt_call>>

\* a handler invocation that has not started; its fields are
\*   pc       position in the handler
\*   kind     the handler: extract, startup, save, migrate
\*   doc      fileId it works on
\*   text     text argument of generateChunkedEmbeddings
\*   chunks   chunks returned by chunkText
\*   i        loop index of generateChunkedEmbeddings
\*   results  its results: the positions of the embedded chunks
\*   oks      the chunks whose embeddings.create call succeeded
\*   gen      how generateChunkedEmbeddings ended: returned, thrown
\*   queue    the selected files still to process
\*   ins      what the chunk batch insert reported
\*   ret      what processInlineIfSmall returned to extract_content
\* no return value yet
NoRet == [processed |-> FALSE, chunks_status |-> "none"]

NewProc ==
  [pc |-> "idle", kind |-> "none", doc |-> NoDoc, text |-> NoText,
   chunks |-> <<>>, i |-> 0, results |-> <<>>, oks |-> {}, gen |-> "none",
   queue |-> <<>>, ins |-> "none", ret |-> NoRet]

\* a handler invocation that has returned
DoneProc == [NewProc EXCEPT !.pc = "done"]

\* ------------------------------------------------------------------------
\* chunkText
\* ------------------------------------------------------------------------
Min(a, b) == IF a < b THEN a ELSE b
Max(a, b) == IF a > b THEN a ELSE b
SetMax(S) == CHOOSE x \in S : \A y \in S : y <= x

\* Math.max of the four lastIndexOf calls on text.slice(searchStart, end):
\* the right-most marker lying wholly inside the slice, relative to
\* searchStart, or -1
bestBoundary(text, searchStart, end) ==
  LET inside == {p \in text.marks : p >= searchStart /\ p + 2 <= end}
  IN  IF inside = {} THEN -1 ELSE SetMax(inside) - searchStart

\* the value of `end` when the chunk is pushed
chunkEnd(text, start) ==
  LET end0 == Min(start + MaxChunkSize, text.len)
  IN  IF end0 < text.len
        THEN LET searchStart == Max(start, end0 - SearchWindow)
                 bb == bestBoundary(text, searchStart, end0)
             IN  IF bb > 0 THEN searchStart + bb + 2 ELSE end0
        ELSE end0

\* the overlap added instead of subtracted
nextStart_gap(start, end) == end + Overlap

\* the value of `start` at the end of the loop body; the pushed chunk is
\* text.slice(start, end), of length end - start
nextStart(start, end) ==
  LET s == end - Overlap
  IN  IF s <= (end - start) - MaxChunkSize THEN end ELSE s

\* the early return taken only below maxChunkSize
singleChunk_strict(text) == text.len < MaxChunkSize

\* the test of the early return
singleChunk(text) == text.len <= MaxChunkSize

\* function entry: the early return, or the first test of the loop condition
ChunkEntry ==
  /\ ct_pc = "entry"
  /\ IF singleChunk(ct_text)
       THEN /\ ct_chunks' = <<[s |-> 0, e |-> ct_text.len]>>
            /\ ct_pc' = "returned"
       ELSE /\ ct_chunks' = <<>>
            /\ ct_pc' = IF 0 < ct_text.len THEN "loop" ELSE "returned"
  /\ ct_start' = 0
  /\ UNCHANGED <<ct_text, ct_owner, pipeVars>>
  /\ UNCHANGED <<samplerVars, searchVars, cosineVars, notesVars>>

\* one iteration of the while loop, followed by the test of its condition;
\* a push onto an array that is full ends the process (out of memory)
ChunkStep ==
  /\ ct_pc = "loop"
  /\ LET end == chunkEnd(ct_text, ct_start)
         ns == nextStart(ct_start, end)
     IN  IF Len(ct_chunks) < MaxChunks
           THEN /\ ct_chunks' = Append(ct_chunks, [s |-> ct_start, e |-> end])
                /\ ct_start' = ns
                /\ ct_pc' = IF ns < ct_text.len THEN "loop" ELSE "returned"
           ELSE /\ ct_pc' = "oom"
                /\ UNCHANGED <<ct_chunks, ct_start>>
  /\ UNCHANGED <<ct_text, ct_owner, pipeVars>>
  /\ UNCHANGED <<samplerVars, searchVars, cosineVars, notesVars>>

\* no pipeline: no document, no handler invocation
PipeUnused ==
  /\ apiKey = TRUE
  /\ status = [d \in Docs |-> "absent"]
  /\ body = [d \in Docs |-> NoText]
  /\ stale = [d \in Docs |-> FALSE]
  /\ stored = [d \in Docs |-> {}]
  /\ legacy = [d \in Docs |-> FALSE]
  /\ proc = [p \in Procs |-> DoneProc]
  /\ fault = FALSE

\* no searchInChunks call
SamplerUnused ==
  /\ sm_pc = "off"
  /\ sm_total = 0
  /\ sm_limit = 0
  /\ sm_emb = FALSE
  /\ sm_hits = {}
  /\ sm_top = <<>>
  /\ sm_ctx = <<>>
  /\ sm_ctxok = TRUE
  /\ sm_out = <<>>
  /\ sm_labels = <<>>

\* no searchNotes call
SearchUnused ==
  /\ se_pc = "off"
  /\ se_query = FALSE
  /\ se_req = 0
  /\ se_limit = 0
  /\ se_emb = "unset"
  /\ se_kw = <<>>
  /\ se_sem = {}
  /\ se_score = <<>>
  /\ se_rank = <<>>
  /\ se_data = <<>>
  /\ se_pass = {}
  /\ se_out = <<>>
  /\ se_err = "none"

\* no add_note call
NotesUnused ==
  /\ nt_exists = FALSE
  /\ nt_body = <<>>
  /\ nt_call = <<>>

\* no cosineSimilarity call
CosineUnused ==
  /\ cs_pc = "off"
  /\ cs_a = <<>>
  /\ cs_b = <<>>
  /\ cs_res = [kind |-> "none"]

\* no chunkText call
ChunkUnused ==
  /\ ct_pc = "idle"
  /\ ct_text = NoText
  /\ ct_start = 0
  /\ ct_chunks = <<>>
  /\ ct_owner = NoDoc

ChunkInit ==
  /\ ct_pc = "entry"
  /\ ct_text \in Texts
  /\ ct_start = 0
  /\ ct_chunks = <<>>
  /\ ct_owner = NoDoc
  /\ PipeUnused
  /\ SamplerUnused
  /\ SearchUnused
  /\ CosineUnused
  /\ NotesUnused

ChunkNext == ChunkEntry \/ ChunkStep

SpecChunk == ChunkInit /\ [][ChunkNext]_vars

\* ------------------------------------------------------------------------
\* Ingestion and the processing state machine
\* ------------------------------------------------------------------------
\* Node runs one handler at a time; a handler gives up control only at an
\* await.  While a chunkText call is running nothing else runs.
EventLoopFree == ct_pc = "idle"

\* an estimate that rounds down
estimatedChunks_floor(text) == text.len \div EstimateChunkSize

\* Math.ceil(text.length / 6000)
estimatedChunks(text) == (text.len + EstimateChunkSize - 1) \div EstimateChunkSize

\* the orders in which a select without ORDER BY may return the rows S
SeqsOf(S) ==
  {q \in [1..Cardinality(S) -> S] : \A i, j \in 1..Cardinality(S) : q[i] = q[j] => i = j}

\* the rows of a select of id and body
FileRows(q) == [i \in 1..Len(q) |-> [id |-> q[i], body |-> body[q[i]]]]

\* unique(file_id, chunk_index): the batch is rejected as a whole when one
\* of its rows repeats an index that the document already has
uniqueViolation(old, rows) == \E r \in rows : \E o \in old : o.idx = r.idx

\* a one-based index
inlineChunkIndex_oneBased(i) == i + 1

\* chunk_index of the i-th (0-based) element of the array that
\* processInlineIfSmall maps over
inlineChunkIndex(i) == i

\* the rows processInlineIfSmall sends to file_chunks
inlineRows(p) ==
  LET r == proc[p].results
  IN  {[idx |-> inlineChunkIndex(j - 1), src |-> r[j],
        span |-> proc[p].chunks[r[j] + 1], by |-> p] : j \in 1..Len(r)}

\* the rows save_learning and the migration script send to file_chunks:
\* chunk_index is the one generateChunkedEmbeddings assigned
resultRows(p) ==
  LET r == proc[p].results
  IN  {[idx |-> r[j], src |-> r[j],
        span |-> proc[p].chunks[r[j] + 1], by |-> p] : j \in 1..Len(r)}

\* a loop over the selected files goes on with the next one (at position
\* `to`), or the handler returns
NextFile(p, to) ==
  IF proc[p].queue # <<>>
    THEN [NewProc EXCEPT !.pc = to, !.kind = proc[p].kind,
                         !.doc = Head(proc[p].queue).id,
                         !.text = Head(proc[p].queue).body,
                         !.queue = Tail(proc[p].queue)]
    ELSE DoneProc

\* control returns from processInlineIfSmall to its caller with the value
\* r: the tool handler keeps it for its answer and finishes,
\* startupProcessor drops it and goes on with the next file
Return(p, r) ==
  IF proc[p].kind = "extract" THEN [DoneProc EXCEPT !.ret = r]
  ELSE NextFile(p, "pis")

\* where generateChunkedEmbeddings continues in its caller when it throws:
\* the catch block of processInlineIfSmall, of save_learning (which goes on
\* without chunks) and of migrateFile (which goes on with the next file)
thrownTo(p) ==
  CASE proc[p].kind = "save" -> "save_file"
    [] proc[p].kind = "migrate" -> "mig_next"
    [] OTHER -> "catch"

\* and when it returns its results
returnedTo(p) ==
  CASE proc[p].kind = "save" -> "save_file"
    [] proc[p].kind = "migrate" -> "mig_insert"
    [] OTHER -> "insert"

\* extract_content: the deduplication select; an existing row is returned
\* as cached, otherwise the extractor is called
ExtractStart(p, d) ==
  /\ EventLoopFree
  /\ proc[p].pc = "idle"
  /\ proc' = [proc EXCEPT ![p] =
                IF status[d] # "absent" THEN DoneProc
                ELSE [@ EXCEPT !.pc = "extracting", !.kind = "extract", !.doc = d]]
  /\ UNCHANGED <<docVars, chunkVars, apiKey, fault>>
  /\ UNCHANGED <<samplerVars, searchVars, cosineVars, notesVars>>

\* a handler that goes on to inline processing whatever the upsert answered
afterUpsert_ignoreError(ok, key) == IF key THEN "pis" ELSE "done"

\* where extract_content goes after the upsert: it returns on upsertError,
\* and calls processInlineIfSmall only if isEmbeddingAvailable()
afterUpsert(ok, key) == IF ok /\ key THEN "pis" ELSE "done"

\* extract_content: the extractor has returned text t; the upsert writes the
\* row with chunks_status pending, and the handler goes on to
\* processInlineIfSmall when isEmbeddingAvailable()
ExtractUpsert(p) ==
  /\ EventLoopFree
  /\ proc[p].pc = "extracting"
  /\ \E t \in PipeTexts, ok \in BOOLEAN :
       LET d == proc[p].doc
       IN  IF ok
             THEN /\ status' = [status EXCEPT ![d] = "pending"]
                  /\ body' = [body EXCEPT ![d] = t]
                  /\ stale' = [stale EXCEPT ![d] = IF status[d] = "absent" THEN FALSE ELSE @]
                  /\ proc' = [proc EXCEPT ![p] =
                                IF afterUpsert(ok, apiKey) = "pis"
                                  THEN [@ EXCEPT !.pc = "pis", !.text = t]
                                  ELSE DoneProc]
                  /\ UNCHANGED fault
             ELSE /\ proc' = [proc EXCEPT ![p] =
                                IF afterUpsert(ok, apiKey) = "pis"
                                  THEN [@ EXCEPT !.pc = "pis", !.text = t]
                                  ELSE DoneProc]
                  /\ fault' = TRUE
                  /\ UNCHANGED <<status, body, stale>>
  /\ UNCHANGED <<stored, legacy, chunkVars, apiKey>>
  /\ UNCHANGED <<samplerVars, searchVars, cosineVars, notesVars>>

\* processInlineIfSmall up to its first await: the estimate, and for a small
\* file the update that marks it processing
PisEntry(p) ==
  /\ EventLoopFree
  /\ proc[p].pc = "pis"
  /\ IF estimatedChunks(proc[p].text) <= SYNC_THRESHOLD
       THEN /\ status' = [status EXCEPT ![proc[p].doc] = "processing"]
            /\ proc' = [proc EXCEPT ![p].pc = "gen"]
       ELSE /\ proc' = [proc EXCEPT ![p] =
                          Return(p, [processed |-> FALSE, chunks_status |-> "pending"])]
            /\ UNCHANGED status
  /\ UNCHANGED <<body, stale, stored, legacy, chunkVars, apiKey, fault>>
  /\ UNCHANGED <<samplerVars, searchVars, cosineVars, notesVars>>

\* generateChunkedEmbeddings up to the call of chunkText: without a client
\* it throws
GenCall(p) ==
  /\ EventLoopFree
  /\ proc[p].pc = "gen"
  /\ IF apiKey
       THEN /\ ct_pc' = "entry"
            /\ ct_text' = proc[p].text
            /\ ct_owner' = p
            /\ proc' = [proc EXCEPT ![p].pc = "chunking"]
            /\ UNCHANGED fault
       ELSE /\ proc' = [proc EXCEPT ![p] = [@ EXCEPT !.pc = thrownTo(p), !.gen = "thrown"]]
            /\ fault' = TRUE
            /\ UNCHANGED <<ct_pc, ct_text, ct_owner>>
  /\ UNCHANGED <<ct_start, ct_chunks, docVars, apiKey>>
  /\ UNCHANGED <<samplerVars, searchVars, cosineVars, notesVars>>

\* chunkText has returned: the loop over the chunks starts
GenChunked(p) ==
  /\ ct_pc = "returned"
  /\ ct_owner = p
  /\ proc[p].pc = "chunking"
  /\ proc' = [proc EXCEPT ![p] =
                [@ EXCEPT !.chunks = ct_chunks, !.i = 0, !.results = <<>>,
                          !.gen = IF Len(ct_chunks) = 0 THEN "thrown" ELSE @,
                          !.pc = IF Len(ct_chunks) = 0 THEN thrownTo(p) ELSE "embed"]]
  /\ ct_pc' = "idle"
  /\ ct_text' = NoText
  /\ ct_start' = 0
  /\ ct_chunks' = <<>>
  /\ ct_owner' = NoDoc
  /\ UNCHANGED <<docVars, apiKey, fault>>
  /\ UNCHANGED <<samplerVars, searchVars, cosineVars, notesVars>>

\* a loop body that pushes a result whatever the call answered
pushResult_always(results, i, ok) == Append(results, i)

\* the body of the loop: results.push in the try block, continue in the
\* catch block
pushResult(results, i, ok) == IF ok THEN Append(results, i) ELSE results

\* one embeddings.create call of the loop: a failed chunk is skipped; after
\* the last chunk an empty result throws
EmbedStep(p) ==
  /\ EventLoopFree
  /\ proc[p].pc = "embed"
  /\ \E ok \in BOOLEAN :
       LET r == pushResult(proc[p].results, proc[p].i, ok)
           n == proc[p].i + 1
       IN  /\ proc' = [proc EXCEPT ![p] =
                         [@ EXCEPT !.results = r, !.i = n,
                                   !.oks = IF ok THEN @ \cup {proc[p].i} ELSE @,
                                   !.gen = IF n < Len(proc[p].chunks) THEN @
                                           ELSE IF Len(r) = 0 THEN "thrown"
                                           ELSE "returned",
                                   !.pc = IF n < Len(proc[p].chunks) THEN "embed"
                                          ELSE IF Len(r) = 0 THEN thrownTo(p)
                                          ELSE returnedTo(p)]]
           /\ fault' = (fault \/ ~ok)
  /\ UNCHANGED <<docVars, apiKey, chunkVars>>
  /\ UNCHANGED <<samplerVars, searchVars, cosineVars, notesVars>>

\* the batch insert into file_chunks; its { error } is not looked at
PisInsert(p) ==
  /\ EventLoopFree
  /\ proc[p].pc = "insert"
  /\ \E storeOk \in BOOLEAN :
       LET d == proc[p].doc
           ok == storeOk /\ ~uniqueViolation(stored[d], inlineRows(p))
       IN  /\ stored' = [stored EXCEPT ![d] = IF ok THEN @ \cup inlineRows(p) ELSE @]
           /\ proc' = [proc EXCEPT ![p] =
                         [@ EXCEPT !.pc = "complete", !.ins = IF ok THEN "ok" ELSE "error"]]
           /\ fault' = (fault \/ ~storeOk)
  /\ UNCHANGED <<status, body, stale, legacy, apiKey, chunkVars>>
  /\ UNCHANGED <<samplerVars, searchVars, cosineVars, notesVars>>

\* the update that marks the file complete, and the return
PisComplete(p) ==
  /\ EventLoopFree
  /\ proc[p].pc = "complete"
  /\ status' = [status EXCEPT ![proc[p].doc] = "complete"]
  /\ proc' = [proc EXCEPT ![p] =
                Return(p, [processed |-> TRUE, chunks_status |-> "complete"])]
  /\ UNCHANGED <<body, stale, stored, legacy, apiKey, fault, chunkVars>>
  /\ UNCHANGED <<samplerVars, searchVars, cosineVars, notesVars>>

\* a catch block that gives the file up
catchBlock_failed(err) ==
  [status |-> "failed", ret |-> [processed |-> FALSE, chunks_status |-> "failed"]]

\* the catch block of processInlineIfSmall for the error err: the status it
\* writes and the value it returns
catchBlock(err) ==
  [status |-> "pending", ret |-> [processed |-> FALSE, chunks_status |-> "pending"]]

\* the catch block: the file goes back to pending, and the return
PisCatch(p) ==
  /\ EventLoopFree
  /\ proc[p].pc = "catch"
  /\ status' = [status EXCEPT ![proc[p].doc] = catchBlock(proc[p].gen).status]
  /\ proc' = [proc EXCEPT ![p] = Return(p, catchBlock(proc[p].gen).ret)]
  /\ UNCHANGED <<body, stale, stored, legacy, apiKey, fault, chunkVars>>
  /\ UNCHANGED <<samplerVars, searchVars, cosineVars, notesVars>>

\* the files startupProcessor may select
stuckFiles == {d \in Docs : status[d] \in {"pending", "failed"} /\ stale[d]}

\* startupProcessor: the select of stuck files, and the first call of
\* processInlineIfSmall
StartupSelect(p) ==
  /\ EventLoopFree
  /\ p = startupProc
  /\ proc[p].pc = "idle"
  /\ \E T \in SUBSET stuckFiles :
       /\ Cardinality(T) = Min(Cardinality(stuckFiles), StartupBatch)
       /\ \E q \in SeqsOf(T) :
            proc' = [proc EXCEPT ![p] =
                       IF T = {} THEN DoneProc
                       ELSE [NewProc EXCEPT !.pc = "pis", !.kind = "startup",
                                            !.doc = FileRows(q)[1].id,
                                            !.text = FileRows(q)[1].body,
                                            !.queue = Tail(FileRows(q))]]
  /\ UNCHANGED <<docVars, chunkVars, apiKey, fault>>
  /\ UNCHANGED <<samplerVars, searchVars, cosineVars, notesVars>>

\* save_learning: with embeddings available generateChunkedEmbeddings(body)
\* is called first, and runs into chunkText without an await
SaveStart(p, d) ==
  /\ EventLoopFree
  /\ proc[p].pc = "idle"
  /\ \E t \in PipeTexts :
       IF apiKey
         THEN /\ ct_pc' = "entry"
              /\ ct_text' = t
              /\ ct_owner' = p
              /\ proc' = [proc EXCEPT ![p] =
                            [@ EXCEPT !.pc = "chunking", !.kind = "save", !.doc = d, !.text = t]]
         ELSE /\ proc' = [proc EXCEPT ![p] =
                            [@ EXCEPT !.pc = "save_file", !.kind = "save", !.doc = d, !.text = t]]
              /\ UNCHANGED <<ct_pc, ct_text, ct_owner>>
  /\ UNCHANGED <<ct_start, ct_chunks, docVars, apiKey, fault>>
  /\ UNCHANGED <<samplerVars, searchVars, cosineVars, notesVars>>

\* save_learning: the insert of the file row; a path that exists is
\* rejected (23505).  The row gets the column default of chunks_status,
\* taken here to be pending.
SaveFile(p) ==
  /\ EventLoopFree
  /\ proc[p].pc = "save_file"
  /\ \E storeOk \in BOOLEAN :
       LET d == proc[p].doc
       IN  IF storeOk /\ status[d] = "absent"
             THEN /\ status' = [status EXCEPT ![d] = "pending"]
                  /\ body' = [body EXCEPT ![d] = proc[p].text]
                  /\ proc' = [proc EXCEPT ![p] =
                                IF Len(proc[p].results) > 0
                                  THEN [@ EXCEPT !.pc = "save_chunks"]
                                  ELSE DoneProc]
                  /\ UNCHANGED fault
             ELSE /\ proc' = [proc EXCEPT ![p] = DoneProc]
                  /\ fault' = (fault \/ ~storeOk)
                  /\ UNCHANGED <<status, body>>
  /\ UNCHANGED <<stale, stored, legacy, apiKey, chunkVars>>
  /\ UNCHANGED <<samplerVars, searchVars, cosineVars, notesVars>>

\* the batch insert of save_learning (a failure is logged) and of
\* migrateFile (a failure is thrown and caught)
ChunksInsert(p) ==
  /\ EventLoopFree
  /\ proc[p].pc \in {"save_chunks", "mig_insert"}
  /\ \E storeOk \in BOOLEAN :
       LET d == proc[p].doc
           ok == storeOk /\ ~uniqueViolation(stored[d], resultRows(p))
       IN  /\ stored' = [stored EXCEPT ![d] = IF ok THEN @ \cup resultRows(p) ELSE @]
           /\ proc' = [proc EXCEPT ![p] =
                         IF proc[p].pc = "mig_insert"
                           THEN [@ EXCEPT !.pc = "mig_next", !.ins = IF ok THEN "ok" ELSE "error"]
                           ELSE DoneProc]
           /\ fault' = (fault \/ ~storeOk)
  /\ UNCHANGED <<status, body, stale, legacy, apiKey, chunkVars>>
  /\ UNCHANGED <<samplerVars, searchVars, cosineVars, notesVars>>

\* the files findFilesToMigrate returns: an embedding, a body, no chunk
filesToMigrate == {d \in Docs : legacy[d] /\ status[d] # "absent" /\ stored[d] = {}}

\* the migration script: findFilesToMigrate, and the first migrateFile
MigrateSelect(p) ==
  /\ EventLoopFree
  /\ p = migrateProc
  /\ proc[p].pc = "idle"
  /\ \E q \in SeqsOf(filesToMigrate) :
       proc' = [proc EXCEPT ![p] =
                  IF filesToMigrate = {} THEN DoneProc
                  ELSE [NewProc EXCEPT !.pc = "gen", !.kind = "migrate",
                                       !.doc = FileRows(q)[1].id,
                                       !.text = FileRows(q)[1].body,
                                       !.queue = Tail(FileRows(q))]]
  /\ UNCHANGED <<docVars, chunkVars, apiKey, fault>>
  /\ UNCHANGED <<samplerVars, searchVars, cosineVars, notesVars>>

\* the migration script: migrateFile has returned, the next file
MigrateNext(p) ==
  /\ EventLoopFree
  /\ proc[p].pc = "mig_next"
  /\ proc' = [proc EXCEPT ![p] = NextFile(p, "gen")]
  /\ UNCHANGED <<docVars, chunkVars, apiKey, fault>>
  /\ UNCHANGED <<samplerVars, searchVars, cosineVars, notesVars>>

\* time passes: a file becomes older than the staleness window
Tick(d) ==
  /\ status[d] # "absent"
  /\ ~stale[d]
  /\ stale' = [stale EXCEPT ![d] = TRUE]
  /\ UNCHANGED <<status, body, stored, legacy, proc, chunkVars, apiKey, fault>>
  /\ UNCHANGED <<samplerVars, searchVars, cosineVars, notesVars>>

\* the store holds rows from before file_chunks (legacy) or nothing; no
\* handler has started
Init ==
  /\ ChunkUnused
  /\ SamplerUnused
  /\ SearchUnused
  /\ CosineUnused
  /\ NotesUnused
  /\ apiKey \in BOOLEAN
  /\ legacy \in [Docs -> BOOLEAN]
  /\ body \in [Docs -> PipeTexts \cup {NoText}]
  /\ \A d \in Docs : legacy[d] <=> body[d] # NoText
  /\ status = [d \in Docs |-> IF legacy[d] THEN "pending" ELSE "absent"]
  /\ stale = [d \in Docs |-> legacy[d]]
  /\ stored = [d \in Docs |-> {}]
  /\ proc = [p \in Procs |-> NewProc]
  /\ fault = FALSE

Next ==
  \/ ChunkEntry
  \/ ChunkStep
  \/ \E p \in Procs, d \in LibraryDocs : ExtractStart(p, d)
  \/ \E p \in Procs : ExtractUpsert(p)
  \/ \E p \in Procs : PisEntry(p)
  \/ \E p \in Procs : GenCall(p)
  \/ \E p \in Procs : GenChunked(p)
  \/ \E p \in Procs : EmbedStep(p)
  \/ \E p \in Procs : PisInsert(p)
  \/ \E p \in Procs : PisComplete(p)
  \/ \E p \in Procs : PisCatch(p)
  \/ \E p \in Procs : StartupSelect(p)
  \/ \E p \in Procs, d \in LearningDocs : SaveStart(p, d)
  \/ \E p \in Procs : SaveFile(p)
  \/ \E p \in Procs : ChunksInsert(p)
  \/ \E p \in Procs : MigrateSelect(p)
  \/ \E p \in Procs : MigrateNext(p)
  \/ \E d \in Docs : Tick(d)

Spec == Init /\ [][Next]_vars

\* the steps of a handler invocation that has started: the event loop runs
\* every continuation that is ready, and a running chunkText call goes on
Continue(p) ==
  \/ ExtractUpsert(p) \/ PisEntry(p) \/ GenCall(p) \/ GenChunked(p)
  \/ EmbedStep(p) \/ PisInsert(p) \/ PisComplete(p) \/ PisCatch(p)
  \/ SaveFile(p) \/ ChunksInsert(p) \/ MigrateNext(p)

Fairness ==
  /\ WF_vars(ChunkEntry \/ ChunkStep)
  /\ \A p \in Procs : WF_vars(Continue(p))

LiveSpec == Init /\ [][Next]_vars /\ Fairness

\* ------------------------------------------------------------------------
\* searchInChunks, the context sampler of read_note
\* ------------------------------------------------------------------------
Range(q) == {q[i] : i \in 1..Len(q)}

RECURSIVE SortAsc(_)
\* the elements of S in ascending order
SortAsc(S) ==
  IF S = {} THEN <<>>
  ELSE LET m == CHOOSE x \in S : \A y \in S : x <= y
       IN  <<m>> \o SortAsc(S \ {m})

RECURSIVE SortByScore(_, _)
\* the elements of S by descending score
SortByScore(S, score) ==
  IF S = {} THEN <<>>
  ELSE LET m == CHOOSE x \in S : \A y \in S : score[x] > score[y] \/ (score[x] = score[y] /\ x <= y)
       IN  <<m>> \o SortByScore(S \ {m}, score)

\* the keyword query: ilike on chunk_text, ascending chunk_index, .limit(limit)
keywordChunks(hits, limit) ==
  SubSeq(SortAsc(hits), 1, Min(limit, Cardinality(hits)))

\* the rows the semantic query may return: .limit(limit), in no order; for
\* the long document the first rows or the last rows of the table
semanticRows(total, limit) ==
  LET n == Min(limit, total)
  IN  IF total <= MaxTotal
        THEN {R \in SUBSET (0..(total - 1)) : Cardinality(R) = n}
        ELSE {0..(n - 1), (total - n)..(total - 1)}

\* what the merge may push onto topMatches: the rows that are not keyword
\* matches, by descending score, cut to the room left under limit; rows of
\* equal score are cut in any way
semanticPicks(rows, score, top, limit) ==
  LET cand == rows \ Range(top)
      room == Min(Max(0, limit - Len(top)), Cardinality(cand))
  IN  {SortByScore(S, score) :
         S \in {T \in SUBSET cand :
                  /\ Cardinality(T) = room
                  /\ \A a \in T, b \in cand \ T : score[a] >= score[b]}}

\* the middle rounded up
middleIdx_ceil(total) == (total + 1) \div 2

\* Math.floor(totalChunkCount / 2)
middleIdx(total) == total \div 2

\* the label of a section of the output
chunkLabel(idx, total) ==
  IF idx = 0 THEN "Introduction"
  ELSE IF idx = middleIdx(total) THEN "Middle Section"
  ELSE IF idx = total - 1 THEN "End Section"
  ELSE "Relevant Match"

\* the documents sampled: up to MaxTotal chunks, and one long document
SampledTotals == (0..MaxTotal) \cup {45}

\* the limits searchInChunks is called with
SamplerLimits == (1..MaxLimit) \cup {DefaultLimit}

\* the chunks that contain the query: any chunks of a short document, and
\* seven chunks of the long one
HitSets(total) ==
  IF total <= MaxTotal THEN SUBSET (0..(total - 1))
  ELSE {{12, 15, 23, 28, 35, 38, 42}}

RECURSIVE firstOccurrences(_)
\* the values of a Map built from the entries of q: one per key, in the
\* order in which the keys were first set
firstOccurrences(q) ==
  IF q = <<>> THEN <<>>
  ELSE LET r == firstOccurrences(SubSeq(q, 1, Len(q) - 1))
       IN  IF q[Len(q)] \in Range(r) THEN r ELSE Append(r, q[Len(q)])

\* the deduplicated chunks left in the order of the Map
uniqueChunks_unsorted(all) == firstOccurrences(all)

\* uniqueChunks: allChunks deduplicated by chunk_index through a Map, then
\* sorted by ascending chunk_index
uniqueChunks(all) == SortAsc(Range(firstOccurrences(all)))

\* the anchors added without looking at the room left under limit
contextIndices_unbounded(top, total, limit) ==
  LET matched == Range(top)
      c0 == IF 0 \notin matched THEN <<0>> ELSE <<>>
      c1 == IF (total \div 2) \notin matched THEN Append(c0, total \div 2) ELSE c0
  IN  IF (total - 1) \notin matched THEN Append(c1, total - 1) ELSE c1

\* contextIndices: beginning, middle and end, each only if it is not a match
\* and there is room left under limit
contextIndices(top, total, limit) ==
  LET matched == Range(top)
      endIdx == total - 1
      c0 == IF 0 \notin matched /\ Len(top) < limit THEN <<0>> ELSE <<>>
      c1 == IF middleIdx(total) \notin matched /\ Len(top) + Len(c0) < limit
              THEN Append(c0, middleIdx(total)) ELSE c0
  IN  IF endIdx \notin matched /\ Len(top) + Len(c1) < limit /\ endIdx > 0
        THEN Append(c1, endIdx) ELSE c1

\* searchInChunks up to the keyword query: the query embedding (null when
\* embeddings are unavailable or the call fails), the file row, the count
SamplerCall ==
  /\ sm_pc = "idle"
  /\ \E limit \in SamplerLimits, emb \in BOOLEAN, hits \in HitSets(sm_total),
        found \in BOOLEAN :
       /\ sm_limit' = limit
       /\ sm_emb' = emb
       /\ sm_hits' = hits
       /\ sm_pc' = IF ~found THEN "thrown"
                   ELSE IF sm_total = 0 THEN "returned"
                   ELSE "search"
  /\ UNCHANGED <<sm_total, sm_top, sm_ctx, sm_ctxok, sm_out, sm_labels>>
  /\ UNCHANGED <<chunkVars, pipeVars, searchVars, cosineVars, notesVars>>

\* the keyword query and, with a query embedding, the semantic query and
\* the merge into topMatches
SamplerSearch ==
  /\ sm_pc = "search"
  /\ \E kwOk \in BOOLEAN :
       IF ~kwOk
         THEN /\ sm_pc' = "thrown"
              /\ UNCHANGED sm_top
         ELSE /\ sm_pc' = "anchors"
              /\ LET kw == keywordChunks(sm_hits, sm_limit)
                 IN  IF sm_emb
                       THEN \E semOk \in BOOLEAN :
                              IF semOk
                                THEN \E rows \in semanticRows(sm_total, sm_limit) :
                                       \E score \in [rows -> 0..MaxScore] :
                                         \E add \in semanticPicks(rows, score, kw, sm_limit) :
                                           sm_top' = kw \o add
                                ELSE sm_top' = kw
                       ELSE sm_top' = kw
  /\ UNCHANGED <<sm_total, sm_limit, sm_emb, sm_hits, sm_ctx, sm_ctxok, sm_out, sm_labels>>
  /\ UNCHANGED <<chunkVars, pipeVars, searchVars, cosineVars, notesVars>>

\* the context chunks, the merge, the deduplication by chunk_index and the
\* sort
SamplerAnchors ==
  /\ sm_pc = "anchors"
  /\ LET ctx == contextIndices(sm_top, sm_total, sm_limit)
     IN  /\ sm_ctx' = ctx
         /\ \E ctxOk \in BOOLEAN :
              LET contextChunks ==
                    IF ctxOk THEN SortAsc({i \in Range(ctx) : i < sm_total}) ELSE <<>>
                  out == uniqueChunks(sm_top \o contextChunks)
              IN  /\ ctx = <<>> => ctxOk
                  /\ sm_ctxok' = ctxOk
                  /\ sm_out' = out
                  /\ sm_labels' = [i \in 1..Len(out) |-> chunkLabel(out[i], sm_total)]
  /\ sm_pc' = "returned"
  /\ UNCHANGED <<sm_total, sm_limit, sm_emb, sm_hits, sm_top>>
  /\ UNCHANGED <<chunkVars, pipeVars, searchVars, cosineVars, notesVars>>

\* the file has been chunked by the background worker
SamplerInit ==
  /\ sm_pc = "idle"
  /\ sm_total \in SampledTotals
  /\ sm_limit = 0
  /\ sm_emb = FALSE
  /\ sm_hits = {}
  /\ sm_top = <<>>
  /\ sm_ctx = <<>>
  /\ sm_ctxok = TRUE
  /\ sm_out = <<>>
  /\ sm_labels = <<>>
  /\ ChunkUnused
  /\ PipeUnused
  /\ SearchUnused
  /\ CosineUnused
  /\ NotesUnused

SamplerNext == SamplerCall \/ SamplerSearch \/ SamplerAnchors

SpecSampler == SamplerInit /\ [][SamplerNext]_vars

\* ------------------------------------------------------------------------
\* searchNotes, hybridSearchWithFilters and the hybrid_search_chunked query
\* ------------------------------------------------------------------------
Files == 1..NumFiles

LimitInputs == ((0 - 1)..MaxReqLimit) \cup {MaxSafeLimit, MaxSafeLimit + 1}

\* the orderings of a set
Orderings(S) ==
  {q \in [1..Cardinality(S) -> S] : \A i, j \in DOMAIN q : i # j => q[i] # q[j]}

\* files whose body contains the query text, by updated_at descending
KeywordLists == UNION {Orderings(S) : S \in SUBSET Files}

\* the file_chunks rows with an embedding, as their file ids, by ascending
\* distance to the query embedding
SemLists == UNION {[1..n -> Files] : n \in 0..MaxSemRows}

FirstN(q, n) == SubSeq(q, 1, Min(n, Len(q)))

\* a clamp without the upper bound
safeLimit_noCap(limit) == Max(1, limit)

safeLimit(limit) == Min(Max(1, limit), MaxSafeLimit)

\* an outcome of the embedding step that lets a failed call escape
embeddingOutcome_rethrow(key, ok) ==
  IF ~key THEN [pc |-> "rpc", emb |-> "nokey", err |-> "none"]
  ELSE IF ok THEN [pc |-> "rpc", emb |-> "vector", err |-> "none"]
  ELSE [pc |-> "thrown", emb |-> "failed", err |-> "embedding"]

\* the embedding step of hybridSearchWithFilters: without a key no call is
\* made, a call that throws is caught and logged
embeddingOutcome(key, ok) ==
  IF ~key THEN [pc |-> "rpc", emb |-> "nokey", err |-> "none"]
  ELSE IF ok THEN [pc |-> "rpc", emb |-> "vector", err |-> "none"]
  ELSE [pc |-> "rpc", emb |-> "failed", err |-> "none"]

\* a CTE of hybrid_search_chunked: row_number() over the ordering, then
\* LIMIT without ORDER BY keeps any n of the rows
limitedRows(q, n) ==
  {R \in SUBSET {[id |-> q[i], rank_ix |-> i] : i \in 1..Len(q)} :
     Cardinality(R) = Min(n, Len(q))}

SetMin(S) == CHOOSE x \in S : \A y \in S : x <= y

\* semantic_results: group by file_id, min(rank_ix)
semanticResults(rows) ==
  {[id |-> f, rank_ix |-> SetMin({r.rank_ix : r \in {x \in rows : x.id = f}})] :
     f \in {r.id : r \in rows}}

\* coalesce(1.0 / (60 + rank_ix), 0.0), as a fraction
rankTerm(rows, f) ==
  IF \E r \in rows : r.id = f
    THEN [n |-> 1, d |-> RrfK + (CHOOSE r \in rows : r.id = f).rank_ix]
    ELSE [n |-> 0, d |-> 1]

\* a score that keeps the better of the two terms
fusedScore_max(k, s, f) ==
  LET a == rankTerm(k, f)
      b == rankTerm(s, f)
  IN  IF a.n * b.d >= b.n * a.d THEN a ELSE b

\* the score column
fusedScore(k, s, f) ==
  LET a == rankTerm(k, f)
      b == rankTerm(s, f)
  IN  [n |-> a.n * b.d + b.n * a.d, d |-> a.d * b.d]

scoreGeq(x, y) == x.n * y.d >= y.n * x.d

RECURSIVE byScoreDesc(_, _, _)
\* order by score desc: the orders of the joined rows S in which no row
\* comes before a row of higher score; rows of equal score come in any
\* order
byScoreDesc(S, k, s) ==
  IF S = {} THEN {<<>>}
  ELSE UNION {{<<f>> \o q : q \in byScoreDesc(S \ {f}, k, s)} :
                f \in {g \in S : \A h \in S :
                         scoreGeq(fusedScore(k, s, g), fusedScore(k, s, h))}}

\* the results hybrid_search_chunked may return: the full outer join of
\* the two legs by descending score (rank) with its score column (score),
\* and its first match_count rows (rows); the semantic leg (sem) is empty
\* when query_embedding is null
hybrid_search_chunked(kw, sem, hasEmbedding, match_count) ==
  UNION {
    {[sem |-> s,
      score |-> [f \in {r.id : r \in k} \cup {r.id : r \in s} |-> fusedScore(k, s, f)],
      rank |-> q, rows |-> FirstN(q, match_count)] :
       q \in byScoreDesc({r.id : r \in k} \cup {r.id : r \in s}, k, s)} :
    k \in limitedRows(kw, match_count * 2),
    s \in {semanticResults(c) :
             c \in limitedRows(IF hasEmbedding THEN sem ELSE <<>>, match_count * 2)}}

\* the rows of data whose file passed the filtered metadata fetch, cut to
\* limit
filterAndSlice(data, pass, limit) ==
  LET inMap(f) == f \in pass
  IN  FirstN(SelectSeq(data, inMap), limit)

\* searchNotes up to the dispatch on query
SearchCall ==
  /\ se_pc = "idle"
  /\ \E limit \in LimitInputs, query \in BOOLEAN, datesOk \in BOOLEAN :
       /\ se_req' = limit
       /\ se_limit' = safeLimit(limit)
       /\ se_query' = query
       /\ se_pc' = IF ~datesOk THEN "thrown" ELSE IF query THEN "embed" ELSE "browse"
       /\ se_err' = IF ~datesOk THEN "date" ELSE "none"
  /\ UNCHANGED <<se_emb, se_kw, se_sem, se_score, se_rank, se_data, se_pass, se_out>>
  /\ UNCHANGED <<chunkVars, pipeVars, samplerVars, cosineVars, notesVars>>

\* hybridSearchWithFilters: the query embedding
SearchEmbed ==
  /\ se_pc = "embed"
  /\ \E key \in BOOLEAN, ok \in BOOLEAN :
       LET o == embeddingOutcome(key, ok)
       IN  /\ se_pc' = o.pc
           /\ se_emb' = o.emb
           /\ se_err' = o.err
  /\ UNCHANGED <<se_query, se_req, se_limit, se_kw, se_sem, se_score, se_rank, se_data,
                 se_pass, se_out>>
  /\ UNCHANGED <<chunkVars, pipeVars, samplerVars, cosineVars, notesVars>>

\* hybridSearchWithFilters: the RPC and the early return on no rows
SearchRpc ==
  /\ se_pc = "rpc"
  /\ \E rpcOk \in BOOLEAN, kw \in KeywordLists, sem \in SemLists :
       IF ~rpcOk
         THEN /\ se_pc' = "thrown"
              /\ se_err' = "rpc"
              /\ UNCHANGED <<se_kw, se_sem, se_score, se_rank, se_data>>
         ELSE \E r \in hybrid_search_chunked(kw, sem, se_emb = "vector",
                                             se_limit * MatchFactor) :
                /\ se_kw' = kw
                /\ se_sem' = r.sem
                /\ se_score' = r.score
                /\ se_rank' = r.rank
                /\ se_data' = r.rows
                /\ se_pc' = IF r.rows = <<>> THEN "returned" ELSE "meta"
                /\ UNCHANGED se_err
  /\ UNCHANGED <<se_query, se_req, se_limit, se_emb, se_pass, se_out>>
  /\ UNCHANGED <<chunkVars, pipeVars, samplerVars, cosineVars, notesVars>>

\* hybridSearchWithFilters: the filtered metadata fetch and the result
SearchMeta ==
  /\ se_pc = "meta"
  /\ \E metaOk \in BOOLEAN, pass \in SUBSET Files :
       IF ~metaOk
         THEN /\ se_pc' = "thrown"
              /\ se_err' = "meta"
              /\ UNCHANGED <<se_pass, se_out>>
         ELSE /\ se_pass' = pass
              /\ se_out' = filterAndSlice(se_data, pass, se_limit)
              /\ se_pc' = "returned"
              /\ UNCHANGED se_err
  /\ UNCHANGED <<se_query, se_req, se_limit, se_emb, se_kw, se_sem, se_score, se_rank,
                 se_data>>
  /\ UNCHANGED <<chunkVars, pipeVars, samplerVars, cosineVars, notesVars>>

\* filteredBrowse: the files that pass the filters, by created_at
\* descending, cut to limit
SearchBrowse ==
  /\ se_pc = "browse"
  /\ \E ok \in BOOLEAN, created \in Orderings(Files), pass \in SUBSET Files :
       IF ~ok
         THEN /\ se_pc' = "thrown"
              /\ se_err' = "browse"
              /\ UNCHANGED <<se_pass, se_out>>
         ELSE /\ se_pass' = pass
              /\ se_out' = filterAndSlice(created, pass, se_limit)
              /\ se_pc' = "returned"
              /\ UNCHANGED se_err
  /\ UNCHANGED <<se_query, se_req, se_limit, se_emb, se_kw, se_sem, se_score, se_rank,
                 se_data>>
  /\ UNCHANGED <<chunkVars, pipeVars, samplerVars, cosineVars, notesVars>>

SearchInit ==
  /\ se_pc = "idle"
  /\ se_query = FALSE
  /\ se_req = 0
  /\ se_limit = 0
  /\ se_emb = "unset"
  /\ se_kw = <<>>
  /\ se_sem = {}
  /\ se_score = <<>>
  /\ se_rank = <<>>
  /\ se_data = <<>>
  /\ se_pass = {}
  /\ se_out = <<>>
  /\ se_err = "none"
  /\ ChunkUnused
  /\ PipeUnused
  /\ SamplerUnused
  /\ CosineUnused
  /\ NotesUnused

SearchNext == SearchCall \/ SearchEmbed \/ SearchRpc \/ SearchMeta \/ SearchBrowse

SpecSearch == SearchInit /\ [][SearchNext]_vars

\* ------------------------------------------------------------------------
\* cosineSimilarity: the copy of read_note (searchInChunks) and the copy of
\* the tool search
\* ------------------------------------------------------------------------
Vectors == [1..VecDim -> (0 - MaxComp)..MaxComp]

RECURSIVE dotProduct(_, _, _)
\* the sum of a[i] * b[i] over the first n components
dotProduct(a, b, n) ==
  IF n = 0 THEN 0 ELSE dotProduct(a, b, n - 1) + a[n] * b[n]

\* the division dot / Math.sqrt(sq) of two numbers: 0 / 0 is NaN; any other
\* value is kept as the pair
quotient(dot, sq) ==
  IF sq = 0 THEN [kind |-> "NaN"] ELSE [kind |-> "number", dot |-> dot, sq |-> sq]

\* the number 0
Zero == [kind |-> "number", dot |-> 0, sq |-> 1]

\* cosineSimilarity of read_note:
\* dotProduct / (Math.sqrt(normA) * Math.sqrt(normB))
cosineSimilarity(a, b) ==
  LET normA == dotProduct(a, a, Len(a))
      normB == dotProduct(b, b, Len(a))
  IN  quotient(dotProduct(a, b, Len(a)), normA * normB)

\* cosineSimilarity of the tool search: vectors of different lengths are
\* turned down, a zero magnitude gives 0
toolCosineSimilarity(a, b) ==
  IF Len(a) # Len(b) THEN [kind |-> "thrown"]
  ELSE LET magnitudeA == dotProduct(a, a, Len(a))
           magnitudeB == dotProduct(b, b, Len(a))
       IN  IF magnitudeA = 0 \/ magnitudeB = 0 THEN Zero
           ELSE quotient(dotProduct(a, b, Len(a)), magnitudeA * magnitudeB)

\* searchInChunks scores a chunk against the query
CosineChunk ==
  /\ cs_pc = "entry"
  /\ cs_res' = cosineSimilarity(cs_a, cs_b)
  /\ cs_pc' = "chunk"
  /\ UNCHANGED <<cs_a, cs_b>>
  /\ UNCHANGED <<chunkVars, pipeVars, samplerVars, searchVars, notesVars>>

\* searchTools scores a tool against the query
CosineTool ==
  /\ cs_pc = "entry"
  /\ cs_res' = toolCosineSimilarity(cs_a, cs_b)
  /\ cs_pc' = "tool"
  /\ UNCHANGED <<cs_a, cs_b>>
  /\ UNCHANGED <<chunkVars, pipeVars, samplerVars, searchVars, notesVars>>

CosineInit ==
  /\ cs_pc = "entry"
  /\ cs_a \in Vectors
  /\ cs_b \in Vectors
  /\ cs_res = [kind |-> "none"]
  /\ ChunkUnused
  /\ PipeUnused
  /\ SamplerUnused
  /\ SearchUnused
  /\ NotesUnused

CosineNext == CosineChunk \/ CosineTool

SpecCosine == CosineInit /\ [][CosineNext]_vars

\* ------------------------------------------------------------------------
\* add_note: the daily file is read, the note is appended to the body that
\* was read, and the row is written back
\* ------------------------------------------------------------------------
NoteCalls == 1..NumNotes

\* a call that has not started; seen is what its select returned
NewCall == [pc |-> "idle", found |-> FALSE, seen |-> <<>>, success |-> FALSE]

\* the select of the daily file: a row, no row (PGRST116), or another
\* error, which makes the call answer success: false
NoteSelect(c) ==
  /\ nt_call[c].pc = "idle"
  /\ \E ok \in BOOLEAN :
       nt_call' = [nt_call EXCEPT ![c] =
                     IF ok THEN [@ EXCEPT !.pc = IF nt_exists THEN "update" ELSE "insert",
                                          !.found = nt_exists, !.seen = nt_body]
                     ELSE [@ EXCEPT !.pc = "done"]]
  /\ UNCHANGED <<nt_exists, nt_body>>
  /\ UNCHANGED <<chunkVars, pipeVars, samplerVars, searchVars, cosineVars>>

\* the file exists: the body that was read, with the note appended, is
\* written to the row
NoteUpdate(c) ==
  /\ nt_call[c].pc = "update"
  /\ \E ok \in BOOLEAN :
       /\ nt_body' = IF ok THEN Append(nt_call[c].seen, c) ELSE nt_body
       /\ nt_call' = [nt_call EXCEPT ![c] = [@ EXCEPT !.pc = "done", !.success = ok]]
  /\ UNCHANGED nt_exists
  /\ UNCHANGED <<chunkVars, pipeVars, samplerVars, searchVars, cosineVars>>

\* the file does not exist: a row with the note as its body is inserted;
\* the insert is turned down when the path has a row by now
NoteInsert(c) ==
  /\ nt_call[c].pc = "insert"
  /\ \E ok \in BOOLEAN :
       LET done == ok /\ ~nt_exists
       IN  /\ nt_exists' = (nt_exists \/ done)
           /\ nt_body' = IF done THEN <<c>> ELSE nt_body
           /\ nt_call' = [nt_call EXCEPT ![c] = [@ EXCEPT !.pc = "done", !.success = done]]
  /\ UNCHANGED <<chunkVars, pipeVars, samplerVars, searchVars, cosineVars>>

\* the day begins with or without a daily file
NotesInit ==
  /\ nt_exists \in BOOLEAN
  /\ nt_body = <<>>
  /\ nt_call = [c \in NoteCalls |-> NewCall]
  /\ ChunkUnused
  /\ PipeUnused
  /\ SamplerUnused
  /\ SearchUnused
  /\ CosineUnused

NotesNext == \E c \in NoteCalls : NoteSelect(c) \/ NoteUpdate(c) \/ NoteInsert(c)

SpecNotes == NotesInit /\ [][NotesNext]_vars

\* ------------------------------------------------------------------------
\* C1: chunkText terminates: the window start strictly advances on every
\* loop iteration.
\* ------------------------------------------------------------------------
C1_StartAdvances ==
  [][(ct_pc = "loop" /\ ct_chunks' # ct_chunks) => ct_start' > ct_start]_vars

\* ------------------------------------------------------------------------
\* Inline processing: processInlineIfSmall runs for an extract_content call
\* or for startupProcessor
\* ------------------------------------------------------------------------
Inline(p) == proc[p].kind \in {"extract", "startup"}

\* the invocations that are past the update to processing of document d
PastFlip(d) ==
  {p \in Procs : /\ Inline(p)
                 /\ proc[p].doc = d
                 /\ proc[p].pc \in {"gen", "chunking", "embed", "insert", "complete", "catch"}}

\* ------------------------------------------------------------------------
\* C2: of the processors that run concurrently on one document, at most one
\* gets past the pending-to-processing flip.
\* ------------------------------------------------------------------------
C2_AtMostOneProcessor == \A d \in Docs : Cardinality(PastFlip(d)) <= 1

\* ------------------------------------------------------------------------
\* C3: when the chunk batch insert reports a failure, the document is not
\* marked complete: its status reverts to pending.
\* ------------------------------------------------------------------------
C3_InsertFailureReverts ==
  [][\A p \in Procs :
       (proc[p].pc = "complete" /\ proc[p].ins = "error" /\ proc'[p].pc # "complete")
         => status'[proc[p].doc] = "pending"]_vars

\* ------------------------------------------------------------------------
\* C4: with the embedding backend and the store answering successfully,
\* every document that enters processing eventually reaches complete.
\* ------------------------------------------------------------------------
C4_ProcessingCompletes ==
  \A d \in Docs : (status[d] = "processing") ~> (status[d] = "complete" \/ fault)

\* ------------------------------------------------------------------------
\* C5: a document's status changes only along pending->processing,
\* failed->processing, processing->complete and processing->pending (and
\* from no row to pending when the document is created).
\* ------------------------------------------------------------------------
StatusMoves ==
  {<<"absent", "pending">>, <<"pending", "processing">>, <<"failed", "processing">>,
   <<"processing", "complete">>, <<"processing", "pending">>}

C5_StatusMoves ==
  [][\A d \in Docs : status'[d] # status[d] => <<status[d], status'[d]>> \in StatusMoves]_vars

C7_Coverage ==
  LET n == Len(ct_chunks)
  IN  /\ \A i \in 1..n : 0 <= ct_chunks[i].s /\ ct_chunks[i].s <= ct_chunks[i].e
      /\ n > 0 => ct_chunks[1].s = 0
      /\ \A i \in 1..(n - 1) : ct_chunks[i + 1].s <= ct_chunks[i].e
      /\ (ct_pc = "loop" /\ n > 0) => ct_start <= ct_chunks[n].e
      /\ ct_pc = "returned" => (n > 0 /\ ct_chunks[n].e = ct_text.len)

\* several chunks, the first one cut at a sentence boundary, the last one
\* reaching the end of the text
C7_Witness ==
  /\ Len(ct_chunks) >= 2
  /\ ct_chunks[1].e < MaxChunkSize
  /\ ct_chunks[Len(ct_chunks)].e = ct_text.len

\* ------------------------------------------------------------------------
\* C8: whenever totalChunks > limit and neither index 0 nor index
\* totalChunks-1 is among the top matches, the sampler's result includes
\* both chunk 0 and chunk totalChunks-1.  Stated for the limits that leave
\* room for the anchors (limit >= 3) and for calls whose fetch of the
\* context chunks did not fail.
\* ------------------------------------------------------------------------
C8_AnchorsIncluded ==
  (/\ sm_pc = "returned"
   /\ sm_ctxok
   /\ sm_limit >= 3
   /\ sm_total > sm_limit
   /\ 0 \notin Range(sm_top)
   /\ (sm_total - 1) \notin Range(sm_top))
    => (0 \in Range(sm_out) /\ (sm_total - 1) \in Range(sm_out))

\* ------------------------------------------------------------------------
\* C9: for every limit >= 1 the sampler returns at most `limit` chunks.
\* ------------------------------------------------------------------------
C9_AtMostLimit ==
  /\ sm_pc \in {"anchors", "returned"} => Len(sm_top) <= sm_limit
  /\ sm_pc = "returned" => Len(sm_out) <= sm_limit

\* keyword matches and anchors together fill the limit of a document that
\* has more chunks than the limit
C9_Witness ==
  /\ sm_pc = "returned"
  /\ sm_hits # {}
  /\ Len(sm_ctx) >= 2
  /\ sm_ctxok
  /\ Len(sm_out) = sm_limit
  /\ sm_total > sm_limit

\* ------------------------------------------------------------------------
\* C10: when the embedding backend is unavailable (no API key) or the
\* query-embedding call fails, a search with a query still runs the keyword
\* leg with a null query embedding and returns its matches (those that pass
\* the filters, newest first, cut to the limit); searchNotes throws only
\* for a reason other than the embedding.
\* ------------------------------------------------------------------------
C10_KeywordFallback ==
  /\ se_pc = "thrown" => se_err \in {"date", "rpc", "meta", "browse"}
  /\ (se_pc = "returned" /\ se_query /\ se_emb \in {"nokey", "failed"}) =>
       se_out = filterAndSlice(FirstN(se_kw, se_limit * MatchFactor), se_pass, se_limit)

\* the embedding call failed and the search returned keyword matches, one
\* of them dropped by the filters
C10_Witness ==
  /\ se_pc = "returned"
  /\ se_query
  /\ se_emb = "failed"
  /\ se_out # <<>>
  /\ Len(se_kw) > Len(se_out)
  /\ Range(se_out) \subseteq Range(se_kw)

C13_PendingFirst ==
  [][\A p \in Procs :
       /\ (proc[p].pc = "extracting" /\ proc'[p].pc # "extracting") =>
            /\ proc[p].chunks = <<>> /\ proc[p].gen = "none" /\ ct_owner # p
            /\ proc'[p].pc \in {"pis", "done"}
            /\ proc'[p].pc = "pis" =>
                 /\ status'[proc[p].doc] = "pending"
                 /\ body'[proc[p].doc] = proc'[p].text
       /\ (proc'[p].kind = "extract"
             /\ proc'[p].pc \in {"pis", "gen", "chunking", "embed", "insert"}) =>
            status'[proc'[p].doc] # "absent"]_vars

\* an ingestion whose write succeeded is embedding its document
C13_Witness ==
  \E p \in Procs :
    /\ proc[p].kind = "extract"
    /\ proc[p].pc = "embed"
    /\ status[proc[p].doc] = "processing"
    /\ body[proc[p].doc] = proc[p].text

\* ------------------------------------------------------------------------
\* C14: startupProcessor only ever processes documents whose status is
\* pending or failed and whose age exceeds the staleness window: whenever
\* its call of processInlineIfSmall takes a document up (writes the status
\* processing), that document is older than the window and its status is
\* pending or failed, never processing or complete.
\* ------------------------------------------------------------------------
C14_OnlyStuckFiles ==
  [][\A p \in Procs :
       (/\ proc[p].kind = "startup"
        /\ proc[p].pc = "pis"
        /\ proc'[p].pc = "gen") =>
         /\ stale[proc[p].doc]
         /\ status[proc[p].doc] \in {"pending", "failed"}]_vars

C15_WitnessInline ==
  \E p \in Procs :
    /\ proc[p].pc = "gen"
    /\ proc[p].text.len = SYNC_THRESHOLD * EstimateChunkSize
    /\ status[proc[p].doc] = "processing"

\* ------------------------------------------------------------------------
\* C16: re-processing a document that already has stored chunks replaces
\* the whole set: when a pass of processInlineIfSmall marks the document
\* complete and no embedding call or store call has failed, the chunks
\* stored for the document are exactly the rows of that pass, with no row
\* of an earlier pass next to them or in their place.
\* ------------------------------------------------------------------------
C16_ReplacesChunks ==
  [][\A p \in Procs :
       (proc[p].pc = "complete" /\ proc'[p].pc # "complete" /\ ~fault) =>
         stored'[proc[p].doc] = inlineRows(p)]_vars

\* ------------------------------------------------------------------------
\* C17: searchNotes with a query returns exactly the first `limit` items
\* of the fused ranking that satisfy all structural filters: every
\* returned item satisfies the filters, the order follows the fused
\* ranking, and fewer than `limit` items are returned only when fewer
\* filter-satisfying items exist in the ranking.
\* ------------------------------------------------------------------------
C17_FirstFiltered ==
  (se_pc = "returned" /\ se_query) =>
    se_out = filterAndSlice(se_rank, se_pass, se_limit)

\* ------------------------------------------------------------------------
\* C18: for every requested limit (0, negative values and values above 20
\* included) the effective limit is min(max(1, limit), 20): a limit below
\* 1 counts as 1 and one above 20 as 20; the limit never makes searchNotes
\* throw, and searchNotes returns at most that many results, in hybrid
\* search and in filtered browse.
\* ------------------------------------------------------------------------
C18_ClampedLimit ==
  se_pc \notin {"off", "idle"} =>
    /\ se_limit = (IF se_req < 1 THEN 1 ELSE IF se_req > 20 THEN 20 ELSE se_req)
    /\ se_pc = "thrown" => se_err # "none"
    /\ Len(se_out) <= se_limit
    /\ Len(se_out) <= 20

\* a browse asked for no more than 0 results returns one of several files
\* that pass the filters
C18_Witness ==
  /\ se_pc = "returned"
  /\ ~se_query
  /\ se_req < 1
  /\ Len(se_out) = 1
  /\ Cardinality(se_pass) >= 2

\* ------------------------------------------------------------------------
\* C19: with fused score = sum over the lists an item appears in of
\* 1/(60 + rank + 1) (rank counted from 0): an item of only one list at
\* rank r scores 1/(61 + r), and an item present in both the keyword list
\* and the semantic list scores strictly more than that at each of its two
\* ranks.
\* ------------------------------------------------------------------------
C19_BothListsHigher ==
  se_pc \in {"meta", "returned"} =>
    \A f \in DOMAIN se_score :
      LET inKw == \E i \in 1..Len(se_kw) : se_kw[i] = f
          inSem == \E r \in se_sem : r.id = f
          kwRank == (CHOOSE i \in 1..Len(se_kw) : se_kw[i] = f) - 1
          semRank == (CHOOSE r \in se_sem : r.id = f).rank_ix - 1
          sc == se_score[f]
      IN  /\ (inKw /\ ~inSem) => sc.n * (61 + kwRank) = sc.d
          /\ (inSem /\ ~inKw) => sc.n * (61 + semRank) = sc.d
          /\ (inKw /\ inSem) =>
               /\ sc.n * (61 + kwRank) > sc.d
               /\ sc.n * (61 + semRank) > sc.d

\* the ranking holds a file of both lists next to files of one list only
C19_Witness ==
  /\ se_pc = "returned"
  /\ \E f \in DOMAIN se_score :
       /\ \E i \in 1..Len(se_kw) : se_kw[i] = f
       /\ \E r \in se_sem : r.id = f
  /\ \E g \in DOMAIN se_score :
       /\ \E i \in 1..Len(se_kw) : se_kw[i] = g
       /\ ~\E r \in se_sem : r.id = g
  /\ \E h \in DOMAIN se_score :
       /\ ~\E i \in 1..Len(se_kw) : se_kw[i] = h
       /\ \E r \in se_sem : r.id = h

\* ------------------------------------------------------------------------
\* C21: chunkText returns exactly one chunk, equal to the whole text,
\* whenever len(text) <= maxChunkSize, including the boundary case
\* len(text) = maxChunkSize (6000 characters) with no sentence boundary near
\* the end.
\* ------------------------------------------------------------------------
C21_SingleChunk ==
  (ct_pc \notin {"idle", "entry"} /\ ct_text.len <= MaxChunkSize) =>
    /\ ct_pc = "returned"
    /\ ct_chunks = <<[s |-> 0, e |-> ct_text.len]>>

\* a text of exactly maxChunkSize characters without a marker in its last
\* 500 characters has been returned
C21_Witness ==
  /\ ct_pc = "returned"
  /\ ct_text.len = MaxChunkSize
  /\ \A m \in ct_text.marks : m + 2 <= MaxChunkSize - SearchWindow
  /\ Len(ct_chunks) = 1

\* ------------------------------------------------------------------------
\* C22: for every pair of consecutive chunks produced by chunkText, the
\* later chunk starts exactly `overlap` (500) characters before the earlier
\* chunk's end: neighbouring chunks share exactly 500 characters.
\* ------------------------------------------------------------------------
C22_ExactOverlap ==
  \A i \in 1..(Len(ct_chunks) - 1) :
    /\ ct_chunks[i + 1].s = ct_chunks[i].e - Overlap
    /\ ct_chunks[i].s <= ct_chunks[i + 1].s
    /\ ct_chunks[i].e <= ct_chunks[i + 1].e

\* a chunk cut at the raw window edge is followed by a chunk cut at a
\* sentence boundary, which is followed by a third chunk
C22_Witness ==
  /\ Len(ct_chunks) = 3
  /\ ct_chunks[1].e = MaxChunkSize
  /\ ct_chunks[2].e < ct_chunks[2].s + MaxChunkSize
  /\ ct_chunks[2].e < ct_text.len

\* ------------------------------------------------------------------------
\* C24: for every window of chunkText that does not reach the end of the
\* text: if any of the four boundary markers occurs in the last 500
\* characters of the window, the chunk ends immediately after the
\* right-most such marker (marker included); only if none occurs does the
\* chunk end at the raw window edge start + maxChunkSize.
\* ------------------------------------------------------------------------
C24_RightmostBoundary ==
  \A i \in 1..Len(ct_chunks) :
    LET start == ct_chunks[i].s
        edge == start + MaxChunkSize
        found == {m \in ct_text.marks : edge - SearchWindow <= m /\ m + 2 <= edge}
    IN  edge < ct_text.len =>
          ct_chunks[i].e = (IF found # {} THEN SetMax(found) + 2 ELSE edge)

\* ------------------------------------------------------------------------
\* C23: for a 45-chunk document whose query matches exactly chunks
\* {12,15,23,28,35,38,42}, with limit 10, the sampler returns exactly the
\* chunks {0,12,15,23,28,35,38,42,44} in ascending order, with chunk 0
\* labeled Introduction and chunk 44 labeled End Section.
\* ------------------------------------------------------------------------
C23_Case ==
  /\ sm_pc = "returned"
  /\ sm_total = 45
  /\ sm_limit = 10
  /\ Range(sm_top) = {12, 15, 23, 28, 35, 38, 42}
  /\ sm_ctxok

C25_StableFusedOrder ==
  (se_pc = "returned" /\ se_query) =>
    \A i, j \in 1..Len(se_out) :
      i < j =>
        LET a == se_score[se_out[i]]
            b == se_score[se_out[j]]
            kwRank(f) == CHOOSE n \in 1..Len(se_kw) : se_kw[n] = f
        IN  /\ a.n * b.d >= b.n * a.d
            /\ (/\ a.n * b.d = b.n * a.d
                /\ se_out[i] \in Range(se_kw)
                /\ se_out[j] \in Range(se_kw))
                 => kwRank(se_out[i]) < kwRank(se_out[j])

\* ------------------------------------------------------------------------
\* C26: the sampler's output never contains two chunks with the same
\* chunk_index and is sorted by strictly ascending chunk_index, whatever the
\* overlap between keyword matches, semantic matches and anchor chunks.
\* ------------------------------------------------------------------------
C26_StrictlyAscending ==
  sm_pc = "returned" =>
    \A i, j \in 1..Len(sm_out) : i < j => sm_out[i] < sm_out[j]

\* a keyword match is followed in topMatches by a semantic match of a
\* smaller index
C26_Witness ==
  /\ sm_pc = "returned"
  /\ sm_emb
  /\ sm_hits # {}
  /\ Len(sm_top) > Cardinality(sm_hits)
  /\ \E i \in 1..(Len(sm_top) - 1) : sm_top[i] > sm_top[i + 1]
  /\ Len(sm_out) >= 3

\* ------------------------------------------------------------------------
\* C27: cosineSimilarity, as used to score chunks against the query,
\* returns 0 and never divides by zero whenever either input vector has
\* zero norm.
\* ------------------------------------------------------------------------
C27_ZeroNormGuard ==
  (/\ cs_pc = "chunk"
   /\ \/ \A i \in 1..Len(cs_a) : cs_a[i] = 0
      \/ \A i \in 1..Len(cs_b) : cs_b[i] = 0)
    => (cs_res.kind = "number" /\ cs_res.dot = 0)

\* ------------------------------------------------------------------------
\* C28: a failure while processing one document of the startup-recovery
\* batch does not prevent the remaining selected documents of that batch
\* from being processed, and startupProcessor never propagates an exception
\* to its caller: while documents of the batch are still to be processed
\* startupProcessor is inside processInlineIfSmall for one of them, and its
\* work on that document has not stopped the server.
\* ------------------------------------------------------------------------
C28_BatchContinues ==
  \A p \in Procs :
    (proc[p].kind = "startup" /\ proc[p].queue # <<>>) =>
      /\ proc[p].pc \in {"pis", "gen", "chunking", "embed", "insert", "complete", "catch"}
      /\ ~(ct_pc = "oom" /\ ct_owner = p)

\* ------------------------------------------------------------------------
\* C30: after any interleaving of concurrent add_note calls for the same
\* day, the daily file's body contains the content of every call that
\* reported success: no appended note is lost to another call's write.
\* ------------------------------------------------------------------------
C30_NoLostNote ==
  \A c \in NoteCalls :
    (nt_call[c].pc = "done" /\ nt_call[c].success) =>
      \E i \in 1..Len(nt_body) : nt_body[i] = c

====
